---- MODULE Spec2Model ----
(***************************************************************************)
(* A model of system.py: the feature vectorizer, the two-pass PCA reducer, *)
(* the cosine nearest-neighbour classifier, and the training and inference *)
(* orchestration that wires them over a model dictionary.                  *)
(*                                                                         *)
(* Three specifications share the variables:                               *)
(*   Spec     process_training_data followed by any number of test pages   *)
(*            (load_test_page, classify_page, correct_errors);             *)
(*   SpecVec  calls of get_bounding_box_size / images_to_feature_vectors   *)
(*            on concrete pixel grids;                                     *)
(*   SpecNN   calls of nearest_neighbour on concrete integer vectors.      *)
(*                                                                         *)
(* Abstractions, stated once:                                              *)
(*  - In Spec a matrix is its shape and provenance (which images it was    *)
(*    computed from, and by which stage); the eigendecomposition's numbers *)
(*    are not computed.  Every shape rule of numpy/scipy that can raise    *)
(*    is kept (np.cov's squeeze, eigh's index range, np.dot's inner        *)
(*    dimension).                                                          *)
(*  - In SpecNN the cosine similarity is compared in exact arithmetic      *)
(*    (sign and squares of integers), not in IEEE doubles.                 *)
(***************************************************************************)
EXTENDS Integers, Sequences, FiniteSets, TLC

VARIABLES
  pc,             \* position of the program
  caller,         \* who called reduce_dimensions: "train" | "test" | "none"
  images_train,   \* process_training_data: list of images read
  labels_train,   \* process_training_data: list of labels read
  bbox_size,      \* process_training_data / load_test_page: local bbox_size
  fvectors,       \* the batch in flight (shape and provenance)
  pca,            \* doPCA's locals of the last call: d and the projection's shape
  model,          \* the model dictionary: a function from its keys
  returned,       \* whether process_training_data has returned the model
  err,            \* the exception raised, "none" when none
  page,           \* the reduced test page returned by load_test_page
  labels,         \* the labels returned by classify_page / correct_errors
  v_images,       \* SpecVec: argument images
  v_bbox,         \* SpecVec: argument bbox_size ([none |-> TRUE] for None)
  v_out,          \* SpecVec: the result
  nn_train,       \* SpecNN: fvectors_train
  nn_labels,      \* SpecNN: labels_train
  nn_test,        \* SpecNN: fvectors_test
  nn_out          \* SpecNN: the result

vars == << pc, caller, images_train, labels_train, bbox_size, fvectors, pca,
           model, returned, err, page, labels,
           v_images, v_bbox, v_out, nn_train, nn_labels, nn_test, nn_out >>

pipeVars == << caller, images_train, labels_train, bbox_size, fvectors, pca,
               model, returned, err, page, labels >>
vecVars  == << v_images, v_bbox, v_out >>
nnVars   == << nn_train, nn_labels, nn_test, nn_out >>

----------------------------------------------------------------------------
(* Bounds of the model *)

MinDim == 6        \* smallest height / width of a training image in Spec
MaxDim == 8        \* largest height / width of a training image in Spec
MaxTrain == 2      \* most training images in Spec
MaxTest == 2       \* most images on a test page in Spec
MaxImg == 3        \* largest height / width of an image in SpecVec
MaxBox == 2        \* largest height / width of a supplied box in SpecVec
MaxImgs == 2       \* most images in one call in SpecVec
MaxCoord == 2      \* largest first coordinate of a vector in SpecNN
NNTrain == 2       \* most training rows in SpecNN
NNTest == 2        \* most test rows in SpecNN

(* Program constants *)

noise_dim == 50
dim == 10
Background == 255

----------------------------------------------------------------------------
(* Images.  An image is its shape and a seed that fixes its pixels:        *)
(* pixel (r, c), 0-based as in numpy, is ImagePixel(image, r, c).          *)

Img(h, w, s) == [h |-> h, w |-> w, seed |-> s]

ImagePixel(image, r, c) == (image.seed + 10 * r + c) % 256

Max(S) == CHOOSE x \in S : \A y \in S : y <= x

Min2(a, b) == IF a <= b THEN a ELSE b

SeqsUpTo(S, n) == UNION { [1..k -> S] : k \in 0..n }

----------------------------------------------------------------------------
(* get_bounding_box_size: max() of an empty generator raises ValueError.   *)

BBoxEmptyAsZero(images) ==
  IF Len(images) = 0
    THEN [err |-> "none", size |-> <<0, 0>>]
    ELSE [err |-> "none",
          size |-> << Max({ images[i].h : i \in 1..Len(images) }),
                      Max({ images[i].w : i \in 1..Len(images) }) >>]

BBoxMinWidth(images) ==
  IF Len(images) = 0
    THEN [err |-> "ValueError", size |-> <<0, 0>>]
    ELSE [err |-> "none",
          size |-> << Max({ images[i].h : i \in 1..Len(images) }),
                      -Max({ -images[i].w : i \in 1..Len(images) }) >>]

GetBoundingBoxSize(images) ==
  IF Len(images) = 0
    THEN [err |-> "ValueError", size |-> <<0, 0>>]
    ELSE [err |-> "none",
          size |-> << Max({ images[i].h : i \in 1..Len(images) }),
                      Max({ images[i].w : i \in 1..Len(images) }) >>]

(* padded_image: a bbox-sized canvas of 255 with image[0:h, 0:w] pasted at *)
(* the top-left corner, h and w clamped to the box.                        *)

PaddedImageZeroFill(image, bbox) ==
  [r \in 0..(bbox[1] - 1) |->
     [c \in 0..(bbox[2] - 1) |->
        IF r < image.h /\ c < image.w
          THEN ImagePixel(image, r, c)
          ELSE 0]]

PaddedImage(image, bbox) ==
  LET h == Min2(image.h, bbox[1])
      w == Min2(image.w, bbox[2])
  IN  [r \in 0..(bbox[1] - 1) |->
         [c \in 0..(bbox[2] - 1) |->
            IF r < h /\ c < w
              THEN ImagePixel(image, r, c)
              ELSE Background]]

(* numpy's reshape(1, nfeatures) of an H x W grid: row-major order.        *)

Reshape(grid, bbox) ==
  [k \in 0..(bbox[1] * bbox[2] - 1) |-> grid[k \div bbox[2]][k % bbox[2]]]

NoBox == [none |-> TRUE, size |-> <<0, 0>>]

Box(h, w) == [none |-> FALSE, size |-> <<h, w>>]

(* images_to_feature_vectors(images, bbox_size=None).  The result is the   *)
(* matrix: its shape and its rows, row i (1-based) a function of 0..n-1.   *)

ImagesToFeatureVectors(images, box) ==
  LET bb == IF box.none THEN GetBoundingBoxSize(images)
                        ELSE [err |-> "none", size |-> box.size]
      bbox == bb.size
  IN  IF bb.err # "none"
        THEN [err |-> bb.err, bbox |-> bbox, shape |-> <<0, 0>>, rows |-> <<>>]
        ELSE [err |-> "none",
              bbox |-> bbox,
              shape |-> << Len(images), bbox[1] * bbox[2] >>,
              rows |-> [i \in 1..Len(images) |->
                          Reshape(PaddedImage(images[i], bbox), bbox)]]

----------------------------------------------------------------------------
(* Matrices of the PCA stage: shape and provenance.                        *)
(*   src   "train" | "test": the images the batch was computed from        *)
(*   kind  "full" (vectorized), "recon" (noise pass output),               *)
(*         "proj" (a projection)                                           *)

Batch(n, f, src, kind) == [rows |-> n, cols |-> f, src |-> src, kind |-> kind]

NoBatch == Batch(0, 0, "none", "none")

(* A basis: an N x d matrix, and the batch it was fitted from.             *)
(* np.array([]) (size 0) is the empty basis.                               *)

Basis(n, d, src, kind) == [rows |-> n, cols |-> d, src |-> src, kind |-> kind]

EmptyBasis == Basis(0, 0, "none", "none")

Size(v) == v.rows * v.cols

NoPca == [d |-> 0, cols |-> 0, fitted |-> FALSE]

(* np.cov(feature_vector, rowvar=0): the batch is transposed unless it has *)
(* one row; one variable squeezes to a 0-d array, whose shape[0] raises    *)
(* IndexError (a numpy that transposes the single row gives a NaN matrix,  *)
(* which eigh rejects: an exception either way); no observation gives NaN, *)
(* which eigh rejects with ValueError.                                     *)
(* scipy.linalg.eigh(covx, eigvals=(N - d, N - 1)) needs 0 <= N - d.       *)

FitError(fv, d) ==
  IF fv.rows = 1 \/ fv.cols = 1 THEN "IndexError"
  ELSE IF fv.rows = 0 THEN "ValueError"
  ELSE IF fv.cols - d < 0 THEN "ValueError"
  ELSE "none"

(* doPCA(feature_vector, model, d): the model after the call, the value    *)
(* returned, the exception, and the locals (d, pca_processed_data's width).*)

DoPCARefit(fv, m, d) ==
  LET fitErr == FitError(fv, d)
      v == Basis(fv.cols, d, fv.src, fv.kind)
      m2 == IF d = m["dim"] THEN [m EXCEPT !["eigenvector"] = v] ELSE m
  IN  IF fitErr # "none"
        THEN [err |-> fitErr, model |-> m, out |-> NoBatch, pca |-> NoPca]
        ELSE [err |-> "none", model |-> m2,
              out |-> IF d = m["noise_dim"]
                        THEN Batch(fv.rows, v.rows, fv.src, "recon")
                        ELSE Batch(fv.rows, v.cols, fv.src, "proj"),
              pca |-> [d |-> d, cols |-> v.cols, fitted |-> TRUE]]

DoPCASaveNoise(fv, m, d) ==
  LET stored == m["eigenvector"]
      fit == Size(stored) = 0
      fitErr == IF fit THEN FitError(fv, d) ELSE "none"
      v == IF fit THEN Basis(fv.cols, d, fv.src, fv.kind) ELSE stored
      m2 == IF fit /\ d = m["noise_dim"] THEN [m EXCEPT !["eigenvector"] = v] ELSE m
  IN  IF fitErr # "none"
        THEN [err |-> fitErr, model |-> m, out |-> NoBatch, pca |-> NoPca]
      ELSE IF fv.cols # v.rows
        THEN [err |-> "ValueError", model |-> m2, out |-> NoBatch, pca |-> NoPca]
      ELSE [err |-> "none", model |-> m2,
            out |-> IF d = m["noise_dim"]
                      THEN Batch(fv.rows, v.rows, fv.src, "recon")
                      ELSE Batch(fv.rows, v.cols, fv.src, "proj"),
            pca |-> [d |-> d, cols |-> v.cols, fitted |-> fit]]

DoPCASaveAlways(fv, m, d) ==
  LET stored == m["eigenvector"]
      fit == Size(stored) = 0
      fitErr == IF fit THEN FitError(fv, d) ELSE "none"
      v == IF fit THEN Basis(fv.cols, d, fv.src, fv.kind) ELSE stored
      m2 == IF fit THEN [m EXCEPT !["eigenvector"] = v] ELSE m
  IN  IF fitErr # "none"
        THEN [err |-> fitErr, model |-> m, out |-> NoBatch, pca |-> NoPca]
      ELSE IF fv.cols # v.rows
        THEN [err |-> "ValueError", model |-> m2, out |-> NoBatch, pca |-> NoPca]
      ELSE [err |-> "none", model |-> m2,
            out |-> IF d = m["noise_dim"]
                      THEN Batch(fv.rows, v.rows, fv.src, "recon")
                      ELSE Batch(fv.rows, v.cols, fv.src, "proj"),
            pca |-> [d |-> d, cols |-> v.cols, fitted |-> fit]]

DoPCA(fv, m, d) ==
  LET stored == m["eigenvector"]
      fit == Size(stored) = 0
      fitErr == IF fit THEN FitError(fv, d) ELSE "none"
      v == IF fit THEN Basis(fv.cols, d, fv.src, fv.kind) ELSE stored
      m2 == IF fit /\ d = m["dim"] THEN [m EXCEPT !["eigenvector"] = v] ELSE m
  IN  IF fitErr # "none"
        THEN [err |-> fitErr, model |-> m, out |-> NoBatch, pca |-> NoPca]
      ELSE IF fv.cols # v.rows
        THEN [err |-> "ValueError", model |-> m2, out |-> NoBatch, pca |-> NoPca]
      ELSE [err |-> "none", model |-> m2,
            out |-> IF d = m["noise_dim"]
                      THEN Batch(fv.rows, v.rows, fv.src, "recon")
                      ELSE Batch(fv.rows, v.cols, fv.src, "proj"),
            pca |-> [d |-> d, cols |-> v.cols, fitted |-> fit]]

----------------------------------------------------------------------------
(* The external loaders (utils.load_char_images, utils.load_labels): a     *)
(* corpus is a list of images and a list of labels aligned by index.       *)

LabelSet == {"A", "B"}

TrainImages == { Img(h, w, 0) : h \in MinDim..MaxDim, w \in MinDim..MaxDim }

Corpora ==
  UNION { { [images |-> im, labels |-> lb] :
              im \in [1..k -> TrainImages], lb \in [1..k -> LabelSet] } :
          k \in 0..MaxTrain }

(* The images of a test page: smaller than, equal to and larger than the   *)
(* model's bounding box.                                                   *)

TestImages(bbox) ==
  { Img(bbox[1] - 1, bbox[2] - 1, 0),
    Img(bbox[1], bbox[2], 0),
    Img(bbox[1] + 1, bbox[2] + 1, 0) }

TestPages(bbox) == SeqsUpTo(TestImages(bbox), MaxTest)

Range(f) == { f[x] : x \in DOMAIN f }

NoVecOut == [err |-> "none", bbox |-> <<0, 0>>, shape |-> <<0, 0>>, rows |-> <<>>]

----------------------------------------------------------------------------
(* Spec: training, then inference page by page.                            *)

Init ==
  /\ pc = "start"
  /\ caller = "none"
  /\ images_train = <<>>
  /\ labels_train = <<>>
  /\ bbox_size = <<0, 0>>
  /\ fvectors = NoBatch
  /\ pca = NoPca
  /\ model = <<>>
  /\ returned = FALSE
  /\ err = "none"
  /\ page = NoBatch
  /\ labels = <<>>
  /\ v_images = <<>>
  /\ v_bbox = NoBox
  /\ v_out = NoVecOut
  /\ nn_train = <<>>
  /\ nn_labels = <<>>
  /\ nn_test = <<>>
  /\ nn_out = [err |-> "none", labels |-> <<>>]

(* process_training_data, lines 129-134: read the pages.                   *)
ReadData ==
  /\ pc = "start"
  /\ \E corpus \in Corpora :
       /\ images_train' = corpus.images
       /\ labels_train' = corpus.labels
  /\ pc' = "read"
  /\ UNCHANGED << caller, bbox_size, fvectors, pca, model, returned, err,
                  page, labels >>
  /\ UNCHANGED << vecVars, nnVars >>

(* lines 137-138: the bounding box and the full feature vectors.           *)
ExtractFeatures ==
  /\ pc = "read"
  /\ LET bb == GetBoundingBoxSize(images_train)
         fv == ImagesToFeatureVectors(images_train, Box(bb.size[1], bb.size[2]))
     IN  IF bb.err # "none"
           THEN /\ pc' = "error"
                /\ err' = bb.err
                /\ UNCHANGED << bbox_size, fvectors >>
           ELSE /\ pc' = "extracted"
                /\ bbox_size' = bb.size
                /\ fvectors' = Batch(fv.shape[1], fv.shape[2], "train", "full")
                /\ err' = "none"
  /\ UNCHANGED << caller, images_train, labels_train, pca, model, returned,
                  page, labels >>
  /\ UNCHANGED << vecVars, nnVars >>

(* lines 140-141: model_data = dict(); model_data['labels_train'].         *)
StoreLabels ==
  /\ pc = "extracted"
  /\ model' = ("labels_train" :> labels_train)
  /\ pc' = "m_labels"
  /\ UNCHANGED << caller, images_train, labels_train, bbox_size, fvectors, pca,
                  returned, err, page, labels >>
  /\ UNCHANGED << vecVars, nnVars >>

(* line 142 *)
StoreBbox ==
  /\ pc = "m_labels"
  /\ model' = ("bbox_size" :> bbox_size) @@ model
  /\ pc' = "m_bbox"
  /\ UNCHANGED << caller, images_train, labels_train, bbox_size, fvectors, pca,
                  returned, err, page, labels >>
  /\ UNCHANGED << vecVars, nnVars >>

(* line 144 *)
StoreEmptyBasis ==
  /\ pc = "m_bbox"
  /\ model' = ("eigenvector" :> EmptyBasis) @@ model
  /\ pc' = "m_eig"
  /\ UNCHANGED << caller, images_train, labels_train, bbox_size, fvectors, pca,
                  returned, err, page, labels >>
  /\ UNCHANGED << vecVars, nnVars >>

(* lines 147-151 *)
StoreDims ==
  /\ pc = "m_eig"
  /\ model' = ("dim" :> dim) @@ (("noise_dim" :> noise_dim) @@ model)
  /\ pc' = "m_dims"
  /\ UNCHANGED << caller, images_train, labels_train, bbox_size, fvectors, pca,
                  returned, err, page, labels >>
  /\ UNCHANGED << vecVars, nnVars >>

(* line 155: the call of reduce_dimensions on the training vectors.        *)
CallReduceTrain ==
  /\ pc = "m_dims"
  /\ caller' = "train"
  /\ pc' = "reduce_noise"
  /\ UNCHANGED << images_train, labels_train, bbox_size, fvectors, pca, model,
                  returned, err, page, labels >>
  /\ UNCHANGED << vecVars, nnVars >>

(* reduce_dimensions, line 69: doPCA(feature_vectors_full, model, noise_dim) *)
ReduceNoisePass ==
  /\ pc = "reduce_noise"
  /\ LET r == DoPCA(fvectors, model, model["noise_dim"])
     IN  /\ model' = r.model
         /\ pca' = r.pca
         /\ err' = r.err
         /\ fvectors' = r.out
         /\ pc' = IF r.err = "none" THEN "reduce_final" ELSE "error"
  /\ UNCHANGED << caller, images_train, labels_train, bbox_size, returned,
                  page, labels >>
  /\ UNCHANGED << vecVars, nnVars >>

(* reduce_dimensions, line 71: doPCA(reconstructed_feature_vector, model, dim) *)
ReduceFinalPass ==
  /\ pc = "reduce_final"
  /\ LET r == DoPCA(fvectors, model, model["dim"])
     IN  /\ model' = r.model
         /\ pca' = r.pca
         /\ err' = r.err
         /\ fvectors' = r.out
         /\ pc' = IF r.err = "none" THEN "reduced" ELSE "error"
  /\ UNCHANGED << caller, images_train, labels_train, bbox_size, returned,
                  page, labels >>
  /\ UNCHANGED << vecVars, nnVars >>

(* line 156: model_data['fvectors_train'] = fvectors_train.tolist()        *)
StoreFvectors ==
  /\ pc = "reduced"
  /\ caller = "train"
  /\ model' = ("fvectors_train" :> fvectors) @@ model
  /\ pc' = "m_fvectors"
  /\ UNCHANGED << caller, images_train, labels_train, bbox_size, fvectors, pca,
                  returned, err, page, labels >>
  /\ UNCHANGED << vecVars, nnVars >>

(* line 158: return model_data; the locals of the call are gone.           *)
ReturnModel ==
  /\ pc = "m_fvectors"
  /\ returned' = TRUE
  /\ pc' = "trained"
  /\ caller' = "none"
  /\ images_train' = <<>>
  /\ labels_train' = <<>>
  /\ bbox_size' = <<0, 0>>
  /\ fvectors' = NoBatch
  /\ pca' = NoPca
  /\ UNCHANGED << model, err, page, labels >>
  /\ UNCHANGED << vecVars, nnVars >>

(* load_test_page, lines 203-209: vectorize the page with the model's box  *)
(* and call reduce_dimensions.                                             *)
LoadTestPage ==
  /\ pc \in {"trained", "corrected"}
  /\ \E images_test \in TestPages(model["bbox_size"]) :
       LET fv == ImagesToFeatureVectors(images_test,
                   Box(model["bbox_size"][1], model["bbox_size"][2]))
       IN  /\ bbox_size' = model["bbox_size"]
           /\ fvectors' = Batch(fv.shape[1], fv.shape[2], "test", "full")
  /\ caller' = "test"
  /\ pca' = NoPca
  /\ page' = NoBatch
  /\ labels' = <<>>
  /\ pc' = "reduce_noise"
  /\ UNCHANGED << images_train, labels_train, model, returned, err >>
  /\ UNCHANGED << vecVars, nnVars >>

(* load_test_page, line 211: return fvectors_test_reduced.                 *)
ReturnTestPage ==
  /\ pc = "reduced"
  /\ caller = "test"
  /\ page' = fvectors
  /\ fvectors' = NoBatch
  /\ bbox_size' = <<0, 0>>
  /\ pca' = NoPca
  /\ caller' = "none"
  /\ pc' = "page_loaded"
  /\ UNCHANGED << images_train, labels_train, model, returned, err, labels >>
  /\ UNCHANGED << vecVars, nnVars >>

(* classify_page, lines 170-176: nearest_neighbour against the model's     *)
(* training vectors; each output is labels_train[nearest] for some index   *)
(* (the index is decided by numbers this specification does not compute;   *)
(* SpecNN computes it).  np.dot raises when the widths differ.             *)
ClassifyPage ==
  /\ pc = "page_loaded"
  /\ IF page.cols # model["fvectors_train"].cols
       THEN /\ err' = "ValueError"
            /\ pc' = "error"
            /\ UNCHANGED labels
       ELSE /\ labels' \in [1..page.rows -> Range(model["labels_train"])]
            /\ pc' = "classified"
            /\ UNCHANGED err
  /\ UNCHANGED << caller, images_train, labels_train, bbox_size, fvectors, pca,
                  model, returned, page >>
  /\ UNCHANGED << vecVars, nnVars >>

(* correct_errors, line 226: return labels.                                *)
CorrectErrors ==
  /\ pc = "classified"
  /\ labels' = labels
  /\ pc' = "corrected"
  /\ UNCHANGED << caller, images_train, labels_train, bbox_size, fvectors, pca,
                  model, returned, err, page >>
  /\ UNCHANGED << vecVars, nnVars >>

Next ==
  \/ ReadData
  \/ ExtractFeatures
  \/ StoreLabels
  \/ StoreBbox
  \/ StoreEmptyBasis
  \/ StoreDims
  \/ CallReduceTrain
  \/ ReduceNoisePass
  \/ ReduceFinalPass
  \/ StoreFvectors
  \/ ReturnModel
  \/ LoadTestPage
  \/ ReturnTestPage
  \/ ClassifyPage
  \/ CorrectErrors

Spec == Init /\ [][Next]_vars

----------------------------------------------------------------------------
(* SpecVec: calls of the vectorizer on concrete images.                    *)

Seeds == {0, 100}

VecImages == { Img(h, w, s) : h \in 1..MaxImg, w \in 1..MaxImg, s \in Seeds }

VecBoxes == {NoBox} \cup { Box(h, w) : h \in 1..MaxBox, w \in 1..MaxBox }

InitVec == Init

(* a call get_bounding_box_size(images) *)
CallGetBoundingBoxSize ==
  /\ pc = "start"
  /\ \E images \in SeqsUpTo(VecImages, MaxImgs) :
       LET bb == GetBoundingBoxSize(images)
       IN  /\ v_images' = images
           /\ v_out' = [err |-> bb.err, bbox |-> bb.size,
                        shape |-> <<0, 0>>, rows |-> <<>>]
  /\ v_bbox' = NoBox
  /\ pc' = "bbox_done"
  /\ UNCHANGED << pipeVars, nnVars >>

(* a call images_to_feature_vectors(images, bbox_size) *)
CallImagesToFeatureVectors ==
  /\ pc = "start"
  /\ \E images \in SeqsUpTo(VecImages, MaxImgs), box \in VecBoxes :
       /\ v_images' = images
       /\ v_bbox' = box
       /\ v_out' = ImagesToFeatureVectors(images, box)
  /\ pc' = "vec_done"
  /\ UNCHANGED << pipeVars, nnVars >>

NextVec ==
  \/ CallGetBoundingBoxSize
  \/ CallImagesToFeatureVectors

SpecVec == InitVec /\ [][NextVec]_vars

----------------------------------------------------------------------------
(* SpecNN: calls of nearest_neighbour on concrete vectors.                 *)

(* rows of fvectors_train, and rows of fvectors_test *)
NNVecs == { <<x, y>> : x \in (-1)..MaxCoord, y \in 0..1 }

NNTestVecs == { <<x, y>> : x \in (-1)..1, y \in 0..1 }

NNLabelNames == <<"a", "b", "c", "d", "e", "f">>

RECURSIVE DotUpTo(_, _, _)
DotUpTo(a, b, k) == IF k = 0 THEN 0 ELSE a[k] * b[k] + DotUpTo(a, b, k - 1)

(* np.dot of two rows; np.sum(v * v): the squared L2 norm                  *)
Dot(a, b) == DotUpTo(a, b, Len(a))

Norm2(a) == Dot(a, a)

(* dist[i][j] = x / (modtest[i] * modtrain[j]): the quotient num / sqrt(den2), *)
(* NaN (0 / 0) when either norm is zero.                                   *)

DistUnnormalised(t, r) == [nan |-> FALSE, num |-> Dot(t, r), den2 |-> 1]

Dist(t, r) ==
  [nan |-> Norm2(t) * Norm2(r) = 0, num |-> Dot(t, r), den2 |-> Norm2(t) * Norm2(r)]

SgnSq(n) == IF n >= 0 THEN n * n ELSE -(n * n)

(* a > b for two quotients that are not NaN *)
Greater(a, b) == SgnSq(a.num) * b.den2 > SgnSq(b.num) * a.den2

(* np.argmax of one row of dist (1-based here): the first maximum, where a *)
(* NaN counts as the maximum, so the first NaN when there is one.          *)

RECURSIVE ArgmaxLastFrom(_, _, _)
ArgmaxLastFrom(row, j, best) ==
  IF j > Len(row) THEN best
  ELSE IF ~row[best].nan /\ (row[j].nan \/ ~Greater(row[best], row[j]))
         THEN ArgmaxLastFrom(row, j + 1, j)
         ELSE ArgmaxLastFrom(row, j + 1, best)

RECURSIVE ArgmaxFrom(_, _, _)
ArgmaxFrom(row, j, best) ==
  IF j > Len(row) THEN best
  ELSE IF ~row[best].nan /\ (row[j].nan \/ Greater(row[j], row[best]))
         THEN ArgmaxFrom(row, j + 1, j)
         ELSE ArgmaxFrom(row, j + 1, best)

ArgmaxLast(row) == ArgmaxLastFrom(row, 2, 1)

Argmax(row) == ArgmaxFrom(row, 2, 1)

(* nearest_neighbour(fvectors_train, labels_train, fvectors_test); numpy   *)
(* divides by zero with a warning, never an exception.                     *)

NearestNeighbour(train, lbls, test) ==
  LET dist == [i \in 1..Len(test) |-> [j \in 1..Len(train) |-> Dist(test[i], train[j])]]
      nearest == [i \in 1..Len(test) |-> Argmax(dist[i])]
  IN  [err |-> "none",
       dist |-> dist,
       nearest |-> nearest,
       labels |-> [i \in 1..Len(test) |-> lbls[nearest[i]]]]

InitNN == Init

(* classify_page, lines 170-171: the training vectors and labels of the   *)
(* model the page is classified against.                                   *)
LoadTrainingSet ==
  /\ pc = "start"
  /\ \E m \in 1..NNTrain :
       \E train \in [1..m -> NNVecs] :
         /\ nn_train' = train
         /\ nn_labels' = SubSeq(NNLabelNames, 1, m)
  /\ pc' = "nn_ready"
  /\ UNCHANGED << nn_test, nn_out >>
  /\ UNCHANGED << pipeVars, vecVars >>

(* the call nearest_neighbour(fvectors_train, labels_train, fvectors_test) *)
CallNearestNeighbour ==
  /\ pc = "nn_ready"
  /\ \E test \in SeqsUpTo(NNTestVecs, NNTest) :
       /\ nn_test' = test
       /\ nn_out' = NearestNeighbour(nn_train, nn_labels, test)
  /\ pc' = "nn_done"
  /\ UNCHANGED << nn_train, nn_labels >>
  /\ UNCHANGED << pipeVars, vecVars >>

NextNN ==
  \/ LoadTrainingSet
  \/ CallNearestNeighbour

SpecNN == InitNN /\ [][NextNN]_vars

----------------------------------------------------------------------------
(* Properties of the training and inference pipeline (Spec).               *)

HasBasis == "eigenvector" \in DOMAIN model /\ Size(model["eigenvector"]) # 0

InDoPCA == pc \in {"reduce_noise", "reduce_final"}

(* C1: for a model whose stored basis is non-empty, every doPCA call (the   *)
(* noise pass, d = noise_dim, and the final pass, d = dim), hence every    *)
(* reduce_dimensions and load_test_page, leaves the stored basis as it     *)
(* was, raises nothing and does not fit a basis from the batch; and once   *)
(* training has returned, no step changes the stored basis.                *)
C1_FrozenBasis ==
  [][ /\ (InDoPCA /\ HasBasis) =>
           /\ model'["eigenvector"] = model["eigenvector"]
           /\ err' = "none"
           /\ pc' # "error"
           /\ ~pca'.fitted
      /\ (pc \in {"trained", "corrected"} /\ HasBasis) =>
           model'["eigenvector"] = model["eigenvector"]
      /\ returned => (HasBasis /\ model'["eigenvector"] = model["eigenvector"])
    ]_vars

(* C1 witness: a non-empty test page has gone through both passes of a     *)
(* trained model, whose basis is still the one fitted on training data.    *)
C1_Witness ==
  /\ pc = "page_loaded"
  /\ page.rows > 0
  /\ page.src = "test"
  /\ page.kind = "proj"
  /\ model["eigenvector"].src = "train"

FinalTrainBasis(v, bbox) ==
  /\ v.src = "train"
  /\ v.kind = "recon"
  /\ v.cols = 10
  /\ v.rows = bbox[1] * bbox[2]

(* C2: the stored basis is always either empty or the basis fitted on the  *)
(* training data in the final-dimension pass (dim columns); a step changes *)
(* the stored basis only as the final pass that found it empty, and the    *)
(* noise pass never writes the model.                                      *)
C2_BasisOnlyFromFinalPass ==
  /\ [] ( "eigenvector" \in DOMAIN model =>
            \/ model["eigenvector"] = EmptyBasis
            \/ FinalTrainBasis(model["eigenvector"], model["bbox_size"]) )
  /\ [][ /\ ("eigenvector" \in DOMAIN model
              /\ model'["eigenvector"] # model["eigenvector"]) =>
              /\ pc = "reduce_final"
              /\ caller = "train"
              /\ model["eigenvector"] = EmptyBasis
         /\ pc = "reduce_noise" => model' = model
       ]_vars

(* C2 witness: inference has run on a model whose basis was fitted in the  *)
(* final pass of training.                                                 *)
C2_Witness ==
  /\ pc = "corrected"
  /\ Len(labels) > 0
  /\ FinalTrainBasis(model["eigenvector"], model["bbox_size"])

(* C8: training on an empty corpus ends in an error at the bounding box,   *)
(* with no model field created and no model returned.                      *)
C8_EmptyCorpusFailsFast ==
  (pc # "start" /\ ~returned /\ Len(images_train) = 0) =>
     /\ pc \in {"read", "error"}
     /\ DOMAIN model = {}
     /\ pc = "error" => err = "ValueError"

(* C8 witness: the empty corpus has been read and has raised.              *)
C8_Witness ==
  /\ pc = "error"
  /\ Len(images_train) = 0
  /\ err = "ValueError"
  /\ ~returned

LifecycleOrder ==
  LET D == DOMAIN model
  IN  /\ pc \in {"start", "read", "extracted"} => D = {}
      /\ "bbox_size" \in D => "labels_train" \in D
      /\ "eigenvector" \in D => "bbox_size" \in D
      /\ "noise_dim" \in D => ("eigenvector" \in D /\ model["noise_dim"] = 50)
      /\ "dim" \in D => ("noise_dim" \in D /\ model["dim"] = 10)
      /\ HasBasis => "dim" \in D
      /\ "fvectors_train" \in D => HasBasis
      /\ ("eigenvector" \in D
            /\ pc \in {"m_eig", "m_dims", "reduce_noise", "reduce_final"}
            /\ caller # "test")
           => model["eigenvector"] = EmptyBasis
      /\ returned =>
           /\ D = {"labels_train", "bbox_size", "eigenvector", "noise_dim",
                   "dim", "fvectors_train"}
           /\ model["fvectors_train"].rows = Len(model["labels_train"])
           /\ model["fvectors_train"].src = "train"

(* C9: the model is created empty and populated in the order labels, box,  *)
(* (empty basis, noise_dim = 50, dim = 10), fitted basis, reduced training *)
(* vectors; the basis is empty until the final pass and non-empty when     *)
(* fvectors_train is written; the returned model has one training vector   *)
(* per label; and after training no step changes any model field.         *)
C9_Lifecycle ==
  /\ []LifecycleOrder
  /\ [][ /\ returned => model' = model
         /\ \A k \in DOMAIN model :
              /\ k \in DOMAIN model'
              /\ k # "eigenvector" => model'[k] = model[k]
       ]_vars

(* C9 witness: a trained model has been used for a page and is complete.   *)
C9_Witness ==
  /\ pc = "classified"
  /\ returned
  /\ Len(labels) > 0
  /\ model["fvectors_train"].rows = Len(model["labels_train"])

(* C10: in training and in inference alike, each pass of reduce_dimensions *)
(* projects onto a basis with exactly d columns for its own d.             *)
C10_PassUsesOwnDimension ==
  pca.d # 0 => pca.cols = pca.d

----------------------------------------------------------------------------
(* Properties of the vectorizer (SpecVec).                                 *)

(* C3: images_to_feature_vectors(images, (H, W)) raises nothing and        *)
(* returns one row per image, in order, each of length H * W; read         *)
(* row-major, row i equals image i on the cells both cover and 255 on      *)
(* every other cell (padding a smaller image, cropping a larger one).      *)
C3_Vectorize ==
  pc = "vec_done" =>
    LET H == v_out.bbox[1]
        W == v_out.bbox[2]
    IN  /\ ~v_bbox.none => (v_out.err = "none" /\ v_out.bbox = v_bbox.size)
        /\ v_out.err = "none" =>
             /\ v_out.shape = << Len(v_images), H * W >>
             /\ DOMAIN v_out.rows = 1..Len(v_images)
             /\ \A i \in 1..Len(v_images) :
                  /\ DOMAIN v_out.rows[i] = 0..(H * W - 1)
                  /\ \A r \in 0..(H - 1), c \in 0..(W - 1) :
                       v_out.rows[i][r * W + c] =
                         IF r < v_images[i].h /\ c < v_images[i].w
                           THEN ImagePixel(v_images[i], r, c)
                           ELSE 255

(* C3 witness: one call with a box, an image larger than the box and an    *)
(* image smaller than it.                                                  *)
C3_Witness ==
  /\ pc = "vec_done"
  /\ ~v_bbox.none
  /\ v_out.err = "none"
  /\ \E i \in 1..Len(v_images) :
       v_images[i].h > v_bbox.size[1] /\ v_images[i].w > v_bbox.size[2]
  /\ \E i \in 1..Len(v_images) :
       v_images[i].h < v_bbox.size[1] /\ v_images[i].w < v_bbox.size[2]

IsBoundingBox(size, images) ==
  /\ \A i \in 1..Len(images) : images[i].h <= size[1] /\ images[i].w <= size[2]
  /\ \E i \in 1..Len(images) : images[i].h = size[1]
  /\ \E i \in 1..Len(images) : images[i].w = size[2]

(* C4: for a non-empty list get_bounding_box_size returns the maximum      *)
(* height and the maximum width, each attained by some image; called       *)
(* without a box, images_to_feature_vectors uses exactly this box, so      *)
(* every pixel of every image is in its row.                               *)
C4_BoundingBox ==
  /\ (pc = "bbox_done" /\ Len(v_images) > 0) =>
       /\ v_out.err = "none"
       /\ IsBoundingBox(v_out.bbox, v_images)
  /\ (pc = "vec_done" /\ v_bbox.none /\ Len(v_images) > 0) =>
       /\ v_out.err = "none"
       /\ IsBoundingBox(v_out.bbox, v_images)
       /\ \A i \in 1..Len(v_images) :
            \A r \in 0..(v_images[i].h - 1), c \in 0..(v_images[i].w - 1) :
              v_out.rows[i][r * v_out.bbox[2] + c] = ImagePixel(v_images[i], r, c)

(* C4 witness: a call without a box on two images, one the tallest and the *)
(* other the widest.                                                       *)
C4_Witness ==
  /\ pc = "vec_done"
  /\ v_bbox.none
  /\ Len(v_images) = 2
  /\ v_images[1].h > v_images[2].h
  /\ v_images[1].w < v_images[2].w
  /\ v_out.bbox = << v_images[1].h, v_images[2].w >>

----------------------------------------------------------------------------
(* Properties of the classifier (SpecNN).                                  *)

NonZero(a) == \E k \in DOMAIN a : a[k] # 0

AllNonZero == /\ \A j \in 1..Len(nn_train) : NonZero(nn_train[j])
              /\ \A i \in 1..Len(nn_test) : NonZero(nn_test[i])

(* cos(t, a) > cos(t, b) for non-zero t, a, b: the norm of t cancels       *)
CosineGT(t, a, b) ==
  LET p == Dot(t, a)
      q == Dot(t, b)
  IN  \/ p >= 0 /\ q < 0
      \/ p >= 0 /\ q >= 0 /\ p * p * Norm2(b) > q * q * Norm2(a)
      \/ p < 0 /\ q < 0 /\ p * p * Norm2(b) < q * q * Norm2(a)

(* a is a positive multiple of b: parallel, same direction                 *)
PositiveMultiple(a, b) ==
  /\ a[1] * b[2] = a[2] * b[1]
  /\ a[1] * b[1] + a[2] * b[2] > 0

(* C5: with all vectors of non-zero norm, nearest_neighbour returns one    *)
(* label per test row, in order; output i is the label of the training row *)
(* j such that no training row has a greater cosine similarity to test row *)
(* i and every lower-indexed row has a strictly smaller one.               *)
C5_NearestByCosine ==
  (pc = "nn_done" /\ AllNonZero) =>
    /\ nn_out.err = "none"
    /\ DOMAIN nn_out.labels = 1..Len(nn_test)
    /\ \A i \in 1..Len(nn_test) :
         \E j \in 1..Len(nn_train) :
           /\ nn_out.labels[i] = nn_labels[j]
           /\ \A k \in 1..Len(nn_train) :
                ~CosineGT(nn_test[i], nn_train[k], nn_train[j])
           /\ \A k \in 1..(j - 1) :
                CosineGT(nn_test[i], nn_train[j], nn_train[k])

(* C5 witness: two test rows; the first is equally near to two training    *)
(* rows that are not parallel and gets the lower-indexed one's label, the  *)
(* second is strictly nearer to the last row and gets its label.           *)
C5_Witness ==
  /\ pc = "nn_done"
  /\ AllNonZero
  /\ Len(nn_test) = 2
  /\ Len(nn_train) = 2
  /\ ~PositiveMultiple(nn_train[1], nn_train[2])
  /\ ~CosineGT(nn_test[1], nn_train[1], nn_train[2])
  /\ ~CosineGT(nn_test[1], nn_train[2], nn_train[1])
  /\ nn_out.labels[1] = nn_labels[1]
  /\ CosineGT(nn_test[2], nn_train[2], nn_train[1])
  /\ nn_out.labels[2] = nn_labels[2]

HasZeroRow == \E j \in 1..Len(nn_train) : ~NonZero(nn_train[j])

FirstZeroRow ==
  CHOOSE j \in 1..Len(nn_train) :
    /\ ~NonZero(nn_train[j])
    /\ \A k \in 1..(j - 1) : NonZero(nn_train[k])

FirstPositiveMultiple(t) ==
  CHOOSE j \in 1..Len(nn_train) :
    /\ PositiveMultiple(nn_train[j], t)
    /\ \A k \in 1..(j - 1) : ~PositiveMultiple(nn_train[k], t)

C7_DegenerateVectorRaises ==
  (pc = "nn_done" /\ Len(nn_test) > 0 /\ ~AllNonZero) =>
    nn_out.err = "DegenerateVectorError"

====
